---- MODULE Spec2Model ----
(***************************************************************************)
(* build_search_index.py: the search-index builder of a static HTML site.  *)
(*                                                                         *)
(* The script runs top to bottom in one thread:                            *)
(*   1. build_breadcrumbs reads ___left.htm, builds the node table from    *)
(*      the d.add(...) records and resolves a breadcrumb per url;          *)
(*   2. the os.walk loop skips, indexes or fails each .htm/.html file;     *)
(*   3. the records are sorted by title and dumped to search.json;         *)
(*   4. the size of search.json is read back and the summary is printed.   *)
(*                                                                         *)
(* pc is the script's position.  Python strings are TLA+ strings; the      *)
(* character at position i of s is SubSeq(s, i, i).                        *)
(***************************************************************************)
EXTENDS Integers, Sequences, FiniteSets, TLC

VARIABLES
    pc,                 \* position of the script
    console,            \* lines printed so far, each <<kind, argument>>
    nodes_order,        \* build_breadcrumbs: key order of the dict nodes
    nodes,              \* build_breadcrumbs: the dict nodes, id -> record
    item,               \* build_breadcrumbs: index of nodes.items() reached
    node_id,            \* get_path: its argument
    path,               \* get_path: the list of names collected
    current,            \* get_path: the node the loop is at
    visited,            \* get_path: the set of ids already seen
    url_to_breadcrumb,  \* the dict url -> breadcrumb
    walked,             \* os.walk: the files it has produced so far
    index_data,         \* the list of Page Records
    skipped,            \* counter of files skipped by name
    errors,             \* counter of files whose processing raised
    file_size,          \* os.path.getsize(search.json), -1 before it is read
    size_str,           \* the formatted size of the summary, "" before
    os_sep              \* os.sep of the platform the script runs on

vars == <<pc, console, nodes_order, nodes, item, node_id, path, current,
          visited, url_to_breadcrumb, walked, index_data, skipped, errors,
          file_size, size_str, os_sep>>

tree_locals == <<nodes_order, nodes, item, node_id, path, current, visited>>
walk_state  == <<walked, index_data, skipped, errors>>

-----------------------------------------------------------------------------
(* Configuration (lines 25-28).                                            *)

MAX_CONTENT_LENGTH == 3000

SKIP_FILES == <<"___", "index", "search", "$$unsavedpage">>

LEFT_FILE == "___left.htm"

-----------------------------------------------------------------------------
(* Python string operations.                                               *)

CharAt(s, i) == SubSeq(s, i, i)

\* s.startswith(p)
StartsWith(s, p) == Len(s) >= Len(p) /\ SubSeq(s, 1, Len(p)) = p

\* s.endswith(p)
EndsWith(s, p) == Len(s) >= Len(p) /\ SubSeq(s, Len(s) - Len(p) + 1, Len(s)) = p

\* p in s
Contains(s, p) ==
    \E i \in 1..(Len(s) - Len(p) + 1) : SubSeq(s, i, i + Len(p) - 1) = p

Unreversed(l) == l

\* list.reverse()
Reverse(l) == [i \in 1..Len(l) |-> l[Len(l) + 1 - i]]

\* sep.join(l)
RECURSIVE Join(_, _)
Join(sep, l) ==
    IF Len(l) = 0 THEN ""
    ELSE IF Len(l) = 1 THEN l[1]
    ELSE l[1] \o sep \o Join(sep, Tail(l))

Digits == <<"0", "1", "2", "3", "4", "5", "6", "7", "8", "9">>

\* str(n) of a non-negative integer
RECURSIVE IntToStr(_)
IntToStr(n) ==
    IF n < 10 THEN Digits[n + 1]
    ELSE IntToStr(n \div 10) \o Digits[(n % 10) + 1]

\* dict: d[k] = v keeps the position of a key already present
DictSet(d, k, v) == [x \in (DOMAIN d) \cup {k} |-> IF x = k THEN v ELSE d[x]]

EmptyDict == <<>>

-----------------------------------------------------------------------------
(* build_breadcrumbs (lines 34-81).                                        *)

\* lines 48-58: the node table of the records re.findall returned, in order
RECURSIVE BuildNodes(_, _, _)
BuildNodes(matches, order, table) ==
    IF Len(matches) = 0 THEN [order |-> order, table |-> table]
    ELSE LET m == Head(matches)
         IN  BuildNodes(Tail(matches),
                        IF m.id \in DOMAIN table THEN order
                        ELSE Append(order, m.id),
                        DictSet(table, m.id,
                                [parent_id |-> m.parent_id,
                                 name |-> m.name, url |-> m.url]))

HasPageAnyMarker(url) == url /= ""

\* line 75: the nodes that get a breadcrumb
HasPage(url) == url /= "" /\ ~StartsWith(url, "$$")

WalkMoreUnchecked(table, cur, seen) == cur \in DOMAIN table

\* line 66: the condition of get_path's loop
WalkMore(table, cur, seen) == cur \in DOMAIN table /\ cur \notin seen

\* line 77
Separator == " → "

Breadcrumb(names) == Join(Separator, names)

\* lines 87-96, 36-39: ___left.htm is missing
NoLeftFile ==
    /\ pc = "start"
    /\ console' = console \o <<<<"building", "">>, <<"step", "1">>,
                               <<"no_left_file", LEFT_FILE>>,
                               <<"step", "2">>>>
    /\ url_to_breadcrumb' = EmptyDict
    /\ pc' = "scan"
    /\ UNCHANGED <<tree_locals, walk_state, file_size, size_str, os_sep>>

\* lines 87-91, 41-60: ___left.htm holds the records matches
ReadLeft(matches) ==
    /\ pc = "start"
    /\ console' = console \o <<<<"building", "">>, <<"step", "1">>>>
    /\ LET built == BuildNodes(matches, <<>>, EmptyDict)
       IN  /\ nodes_order' = built.order
           /\ nodes' = built.table
    /\ url_to_breadcrumb' = EmptyDict
    /\ item' = 1
    /\ pc' = "items"
    /\ UNCHANGED <<node_id, path, current, visited, walk_state, file_size,
                   size_str, os_sep>>

\* lines 73-76: the next item of nodes.items(); a node with a page calls
\* get_path (lines 63-65), any other node is passed over
NextItem ==
    /\ pc = "items"
    /\ item <= Len(nodes_order)
    /\ LET id == nodes_order[item]
       IN  IF HasPage(nodes[id].url)
           THEN /\ node_id' = id
                /\ path' = <<>>
                /\ current' = id
                /\ visited' = {}
                /\ pc' = "get_path"
                /\ UNCHANGED item
           ELSE /\ item' = item + 1
                /\ UNCHANGED <<node_id, path, current, visited, pc>>
    /\ UNCHANGED <<console, nodes_order, nodes, url_to_breadcrumb, walk_state,
                   file_size, size_str, os_sep>>

\* lines 66-69: one iteration of get_path's loop
PathStep ==
    /\ pc = "get_path"
    /\ WalkMore(nodes, current, visited)
    /\ visited' = visited \cup {current}
    /\ path' = Append(path, nodes[current].name)
    /\ current' = nodes[current].parent_id
    /\ UNCHANGED <<pc, console, nodes_order, nodes, item, node_id,
                   url_to_breadcrumb, walk_state, file_size, size_str, os_sep>>

\* lines 70-71, 76-78: the loop ends, the path is reversed, joined and stored
PathReturn ==
    /\ pc = "get_path"
    /\ ~WalkMore(nodes, current, visited)
    /\ path' = Reverse(path)
    /\ url_to_breadcrumb' =
           DictSet(url_to_breadcrumb, nodes[node_id].url, Breadcrumb(path'))
    /\ item' = item + 1
    /\ pc' = "items"
    /\ UNCHANGED <<console, nodes_order, nodes, node_id, current, visited,
                   walk_state, file_size, size_str, os_sep>>

\* lines 80-81, 93-96: every item is done; the mapping is returned and the
\* locals of build_breadcrumbs go out of scope
BreadcrumbsReturn ==
    /\ pc = "items"
    /\ item > Len(nodes_order)
    /\ console' = console \o
           <<<<"parsed", IntToStr(Cardinality(DOMAIN url_to_breadcrumb))>>,
             <<"step", "2">>>>
    /\ nodes_order' = <<>>
    /\ nodes' = EmptyDict
    /\ item' = 0
    /\ node_id' = 0
    /\ path' = <<>>
    /\ current' = 0
    /\ visited' = {}
    /\ pc' = "scan"
    /\ UNCHANGED <<url_to_breadcrumb, walk_state, file_size, size_str, os_sep>>

-----------------------------------------------------------------------------------------------------------------------------------------------------
(* The text extraction of one page (lines 114-131).  A parsed document is  *)
(* the string of its title element (title: <<>> when soup.title or         *)
(* soup.title.string is None) and its other strings in document order,     *)
(* each with the element that holds it (body).                             *)

Whitespace == {" ", "\t", "\n"}

IsSpace(c) == c \in Whitespace

SetMin(S) == CHOOSE i \in S : \A j \in S : i <= j
SetMax(S) == CHOOSE i \in S : \A j \in S : i >= j

\* the number of whitespace characters s starts with
LeadingSpace(s) ==
    CHOOSE n \in 0..Len(s) :
        /\ \A i \in 1..n : IsSpace(CharAt(s, i))
        /\ n < Len(s) => ~IsSpace(CharAt(s, n + 1))

\* the number of whitespace characters s ends with
TrailingSpace(s) ==
    CHOOSE n \in 0..Len(s) :
        /\ \A i \in 1..n : IsSpace(CharAt(s, Len(s) + 1 - i))
        /\ n < Len(s) => ~IsSpace(CharAt(s, Len(s) - n))

\* s.strip()
Strip(s) ==
    IF LeadingSpace(s) = Len(s) THEN ""
    ELSE SubSeq(s, LeadingSpace(s) + 1, Len(s) - TrailingSpace(s))

\* re.sub(r'\s+', ' ', s): every maximal run of whitespace becomes one space
RECURSIVE CollapseSpace(_)
CollapseSpace(s) ==
    LET spaces == {i \in 1..Len(s) : IsSpace(CharAt(s, i))}
    IN  IF spaces = {} THEN s
        ELSE LET first == SetMin(spaces)
                 rest  == SubSeq(s, first, Len(s))
             IN  SubSeq(s, 1, first - 1) \o " " \o
                 CollapseSpace(SubSeq(rest, LeadingSpace(rest) + 1, Len(rest)))

\* lines 116-120: the strings left after script, style and font.dtree
\* elements are decomposed
RemovedTags == {"script", "style", "font.dtree"}

Decomposed(doc) ==
    doc.title \o
    [i \in 1..Len(SelectSeq(doc.body, LAMBDA n : n.tag \notin RemovedTags))
        |-> SelectSeq(doc.body, LAMBDA n : n.tag \notin RemovedTags)[i].text]

\* line 128: soup.get_text(separator=' ', strip=True)
GetText(strings) ==
    Join(" ", SelectSeq([i \in 1..Len(strings) |-> Strip(strings[i])],
                        LAMBDA t : t /= ""))

\* os.path.splitext(file)[0]: the extension starts at the last dot, unless
\* only dots precede it
SplitextRoot(file) ==
    LET dots == {i \in 1..Len(file) : CharAt(file, i) = "."}
    IN  IF dots = {} THEN file
        ELSE LET last == SetMax(dots)
             IN  IF \A i \in 1..(last - 1) : CharAt(file, i) = "." THEN file
                 ELSE SubSeq(file, 1, last - 1)

\* lines 122-126
Title(doc, file) ==
    LET declared == IF Len(doc.title) = 0 THEN "" ELSE Strip(doc.title[1])
    IN  IF declared /= "" THEN declared ELSE SplitextRoot(file)

TruncateOneMore(text) ==
    IF Len(text) > MAX_CONTENT_LENGTH
    THEN SubSeq(text, 1, MAX_CONTENT_LENGTH + 1)
    ELSE text

\* lines 130-131
Truncate(text) ==
    IF Len(text) > MAX_CONTENT_LENGTH THEN SubSeq(text, 1, MAX_CONTENT_LENGTH)
    ELSE text

\* line 129: the whitespace-collapsed page text
PageText(doc) == Strip(CollapseSpace(GetText(Decomposed(doc))))

\* lines 128-131
Content(doc) == Truncate(PageText(doc))

-----------------------------------------------------------------------------------------------------------------------------------------------------
(* The site of the walk specification: at most MaxFiles of the files of    *)
(* SiteFiles, in any order.                                                *)

MaxFiles == 3

RECURSIVE Rep(_, _)
Rep(c, n) ==
    IF n = 0 THEN ""
    ELSE LET half == Rep(c, n \div 2)
         IN  IF n % 2 = 1 THEN half \o half \o c ELSE half \o half

P(text) == [tag |-> "p", text |-> text]

Doc(title, body) == [title |-> title, body |-> body]

File(dir, name, raises, doc) ==
    [dir |-> dir, name |-> name, raises |-> raises, doc |-> doc]

Plain == Doc(<<"Page">>, <<P("text")>>)

SiteFiles == {
    \* the two pages of the specification's example
    File(<<>>, "a.htm", "",
         Doc(<<"Alpha">>, <<P("Hello "), [tag |-> "script", text |-> "bad()"],
                            P("World")>>)),
    File(<<>>, "b.htm", "", Doc(<<>>, <<P("Just text")>>)),
    \* a title that needs stripping, whitespace runs and tree-widget markup
    File(<<>>, "c.htm", "",
         Doc(<<" Alpha\n">>, <<[tag |-> "font.dtree", text |-> "menu"],
                               P("\n one \t\n two  "), P(" \n"),
                               [tag |-> "style", text |-> "p {}"]>>)),
    File(<<"sub">>, "e.htm", "", Doc(<<"  ">>, <<>>)),
    File(<<>>, ".htm", "", Doc(<<>>, <<P("Zeta")>>)),
    \* the names of the skip list
    File(<<>>, LEFT_FILE, "", Doc(<<"Menu">>, <<P("d.add(1, -1, x, y)")>>)),
    File(<<>>, "index.html", "PermissionError", Plain),
    File(<<"sub">>, "research.htm", "", Plain),
    File(<<>>, "$$unsavedpage1.htm", "", Plain),
    \* not .htm/.html
    File(<<>>, "index.txt", "", Plain),
    \* files whose processing raises
    File(<<>>, "locked.htm", "PermissionError", Plain),
    File(<<"sub">>, "deep.html", "RecursionError", Plain),
    \* a directory and a backslash in a name
    File(<<"a">>, "b.htm", "", Doc(<<"Beta">>, <<P("inner")>>)),
    File(<<>>, "a\\b.htm", "", Doc(<<"Beta">>, <<P("outer")>>)),
    \* text around the cap
    File(<<>>, "l1.htm", "",
         Doc(<<>>, <<P(Rep("x", MAX_CONTENT_LENGTH + 1))>>)),
    File(<<>>, "l2.htm", "",
         Doc(<<"T">>, <<P(Rep("y", MAX_CONTENT_LENGTH - 2))>>)),
    File(<<>>, "l3.htm", "",
         Doc(<<"T">>, <<P(Rep("z", MAX_CONTENT_LENGTH - 3) \o " \n\t "),
                        P("tail  end")>>))
    }

\* lines 122-131 for each file of the site, evaluated once
Extracted ==
    [f \in SiteFiles |->
        [title |-> Title(f.doc, f.name), content |-> Content(f.doc)]]

-----
(* The directory walk (lines 98-147).  A file is its directory below the   *)
(* site root (the sequence of directory names), its name, the exception    *)
(* its processing raises ("" for none) and its parsed document.            *)

\* line 100
IsHtml(file) == EndsWith(file, ".htm") \/ EndsWith(file, ".html")

IsSkippedExact(file) == \E i \in 1..Len(SKIP_FILES) : file = SKIP_FILES[i]

\* line 103
IsSkipped(file) == \E i \in 1..Len(SKIP_FILES) : Contains(file, SKIP_FILES[i])

\* s.replace(a, b) for single characters a and b
ReplaceChar(s, a, b) ==
    Join("", [i \in 1..Len(s) |-> IF CharAt(s, i) = a THEN b ELSE CharAt(s, i)])

\* lines 107-108: os.path.relpath(os.path.join(root, file), SITE_DIR) with
\* the backslashes replaced
RelPath(sep, f) == ReplaceChar(Join(sep, Append(f.dir, f.name)), "\\", "/")

\* lines 135-141
Entry(title, url, content, breadcrumb) ==
    IF breadcrumb /= ""
    THEN [title |-> title, url |-> url, content |-> content,
          path |-> breadcrumb]
    ELSE [title |-> title, url |-> url, content |-> content]

\* line 133: url_to_breadcrumb.get(rel_path, '')
DictGet(d, k, default) == IF k \in DOMAIN d THEN d[k] ELSE default

\* the names a platform allows: no path separator inside a name
NameAllowed(sep, name) ==
    /\ name /= ""
    /\ ~Contains(name, "/")
    /\ ~Contains(name, sep)

OnPlatform(sep, f) ==
    /\ NameAllowed(sep, f.name)
    /\ \A i \in 1..Len(f.dir) : NameAllowed(sep, f.dir[i])

\* lines 100-101: a file that is no .htm/.html file is passed over
WalkOther(f) ==
    /\ pc = "scan"
    /\ ~IsHtml(f.name)
    /\ walked' = walked \cup {f}
    /\ UNCHANGED <<pc, console, tree_locals, url_to_breadcrumb, index_data,
                   skipped, errors, file_size, size_str, os_sep>>

WalkSkipFallThrough(f) ==
    /\ pc = "scan"
    /\ IsHtml(f.name)
    /\ IsSkipped(f.name)
    /\ f.raises = ""
    /\ walked' = walked \cup {f}
    /\ skipped' = skipped + 1
    /\ index_data' = Append(index_data,
                            Entry(Extracted[f].title, RelPath(os_sep, f),
                                  Extracted[f].content, ""))
    /\ UNCHANGED <<pc, console, tree_locals, url_to_breadcrumb, errors,
                   file_size, size_str, os_sep>>

\* lines 103-105: a file skipped by its name
WalkSkip(f) ==
    /\ pc = "scan"
    /\ IsHtml(f.name)
    /\ IsSkipped(f.name)
    /\ walked' = walked \cup {f}
    /\ skipped' = skipped + 1
    /\ UNCHANGED <<pc, console, tree_locals, url_to_breadcrumb, index_data,
                   errors, file_size, size_str, os_sep>>

\* lines 107-143: a file that is read, parsed and appended
WalkIndex(f) ==
    /\ pc = "scan"
    /\ IsHtml(f.name)
    /\ ~IsSkipped(f.name)
    /\ f.raises = ""
    /\ walked' = walked \cup {f}
    /\ LET rel_path == RelPath(os_sep, f)
       IN  index_data' =
               Append(index_data,
                      Entry(Extracted[f].title, rel_path, Extracted[f].content,
                            DictGet(url_to_breadcrumb, rel_path, "")))
    /\ UNCHANGED <<pc, console, tree_locals, url_to_breadcrumb, skipped,
                   errors, file_size, size_str, os_sep>>

WalkErrorAfterAppend(f) ==
    /\ pc = "scan"
    /\ IsHtml(f.name)
    /\ ~IsSkipped(f.name)
    /\ f.raises /= ""
    /\ walked' = walked \cup {f}
    /\ errors' = errors + 1
    /\ index_data' = Append(index_data,
                            Entry(SplitextRoot(f.name), RelPath(os_sep, f),
                                  "", ""))
    /\ console' = Append(console, <<"cannot_read", f.name \o ": " \o f.raises>>)
    /\ UNCHANGED <<pc, tree_locals, url_to_breadcrumb, skipped, file_size,
                   size_str, os_sep>>

\* lines 107-112 or 114-131, 145-147: a file whose processing raises
WalkError(f) ==
    /\ pc = "scan"
    /\ IsHtml(f.name)
    /\ ~IsSkipped(f.name)
    /\ f.raises /= ""
    /\ walked' = walked \cup {f}
    /\ errors' = errors + 1
    /\ console' = Append(console, <<"cannot_read", f.name \o ": " \o f.raises>>)
    /\ UNCHANGED <<pc, tree_locals, url_to_breadcrumb, index_data, skipped,
                   file_size, size_str, os_sep>>

-----------------------------------------------------------------------------
(* Sorting, writing and reporting (lines 149-170).                         *)

\* the characters of the model in the order of their code points
CodePoints == "\t\n $./0123456789ABCDEFGHIJKLMNOPQRSTUVWXYZ\\_abcdefghijklmnopqrstuvwxyz→"

Ord(c) == CHOOSE i \in 1..Len(CodePoints) : CharAt(CodePoints, i) = c

Min(a, b) == IF a <= b THEN a ELSE b

\* s < t on Python strings
StrLess(s, t) ==
    LET differ == {i \in 1..Min(Len(s), Len(t)) : CharAt(s, i) /= CharAt(t, i)}
    IN  IF differ = {} THEN Len(s) < Len(t)
        ELSE Ord(CharAt(s, SetMin(differ))) < Ord(CharAt(t, SetMin(differ)))

SortKeyUrl(entry) == entry.url

\* the key of line 149
SortKey(entry) == entry.title

\* one element put into a sorted list, after the elements not greater
Insert(sorted, e) ==
    LET before == Cardinality({i \in 1..Len(sorted) :
                                  ~StrLess(SortKey(e), SortKey(sorted[i]))})
    IN  SubSeq(sorted, 1, before) \o <<e>> \o
        SubSeq(sorted, before + 1, Len(sorted))

\* line 149: list.sort(key=...), a stable sort
RECURSIVE SortEntries(_)
SortEntries(l) ==
    IF Len(l) = 0 THEN <<>>
    ELSE Insert(SortEntries(SubSeq(l, 1, Len(l) - 1)), l[Len(l)])

\* the bytes of a string in json.dump(..., ensure_ascii=False): the quotes,
\* two bytes for an escaped character, three for the arrow in UTF-8
JsonStrSize(s) ==
    2 + Len(s)
      + Cardinality({i \in 1..Len(s) : CharAt(s, i) \in {"\"", "\\", "\n", "\t"}})
      + 2 * Cardinality({i \in 1..Len(s) : CharAt(s, i) = "→"})

\* JsonStrSize of the contents of the site, evaluated once
ContentSizes ==
    [c \in {Extracted[f].content : f \in SiteFiles} |-> JsonStrSize(c)]

JsonContentSize(c) ==
    IF c \in DOMAIN ContentSizes THEN ContentSizes[c] ELSE JsonStrSize(c)

\* {"title": T, "url": U, "content": C, "path": P}
JsonEntrySize(e) ==
    1 + 9 + JsonStrSize(e.title) + 2 + 7 + JsonStrSize(e.url)
      + 2 + 11 + JsonContentSize(e.content)
      + (IF "path" \in DOMAIN e THEN 2 + 8 + JsonStrSize(e.path) ELSE 0) + 1

RECURSIVE SumSizes(_)
SumSizes(l) ==
    IF Len(l) = 0 THEN 0 ELSE JsonEntrySize(Head(l)) + SumSizes(Tail(l))

\* lines 152-155: the size of the array json.dump wrote
JsonSize(l) ==
    2 + SumSizes(l) + (IF Len(l) > 1 THEN 2 * (Len(l) - 1) ELSE 0)

\* lines 149-155: the walk is over
SortAndDump ==
    /\ pc = "scan"
    /\ index_data' = SortEntries(index_data)
    /\ file_size' = JsonSize(index_data')
    /\ pc' = "written"
    /\ UNCHANGED <<console, tree_locals, url_to_breadcrumb, walked, skipped,
                   errors, size_str, os_sep>>

\* format(x / unit, '.0f'): to the nearest integer, a tie to the even one
RoundHalfEven(x, unit) ==
    LET q == x \div unit
        r == x % unit
    IN  IF 2 * r > unit \/ (2 * r = unit /\ q % 2 = 1) THEN q + 1 ELSE q

\* lines 156-159
SizeStr(size) ==
    IF size > 1024 * 1024
    THEN LET tenths == RoundHalfEven(size * 10, 1024 * 1024)
         IN  IntToStr(tenths \div 10) \o "." \o IntToStr(tenths % 10) \o " MB"
    ELSE IntToStr(RoundHalfEven(size, 1024)) \o " KB"

WithPath(l) == Len(SelectSeq(l, LAMBDA e : "path" \in DOMAIN e))

\* lines 161-170: the lines of the summary
Summary(entries, nskipped, nerrors, size) ==
    << <<"pages", IntToStr(Len(entries))>>,
       <<"with_path", IntToStr(WithPath(entries))>>,
       <<"skipped", IntToStr(nskipped)>>,
       <<"errors", IntToStr(nerrors)>>,
       <<"search.json", size>>,
       <<"done", "">> >>

\* lines 156-170
Report ==
    /\ pc = "written"
    /\ size_str' = SizeStr(file_size)
    /\ console' = console \o Summary(index_data, skipped, errors, size_str')
    /\ pc' = "done"
    /\ UNCHANGED <<tree_locals, url_to_breadcrumb, walk_state, file_size,
                   os_sep>>

-----------------------------------------------------------------------------
(* The state at the start of the script, on either kind of platform.       *)

Init ==
    /\ pc = "start"
    /\ console = <<>>
    /\ nodes_order = <<>>
    /\ nodes = EmptyDict
    /\ item = 0
    /\ node_id = 0
    /\ path = <<>>
    /\ current = 0
    /\ visited = {}
    /\ url_to_breadcrumb = EmptyDict
    /\ walked = {}
    /\ index_data = <<>>
    /\ skipped = 0
    /\ errors = 0
    /\ file_size = -1
    /\ size_str = ""
    /\ os_sep \in {"/", "\\"}

-----------------------------------------------------------------------------
(* The navigation documents of the tree specification: every sequence of   *)
(* at most MaxMatches d.add records with the ids 1..n in order, and the    *)
(* documents of NavSamples.                                                *)

MaxMatches == 3

NodeNames == <<"A", "B", "C", "D", "E">>

NodeUrls == {"", "b.htm", "c.htm", "$$unsavedpage1"}

Rec(id, parent_id, name, url) ==
    [id |-> id, parent_id |-> parent_id, name |-> name, url |-> url]

Generated(n, parents, urls) ==
    [i \in 1..n |-> Rec(i, parents[i], NodeNames[i], urls[i])]

\* the records of the specification's example, with a placeholder node and
\* a page below it
ExampleNav ==
    <<Rec(1, -1, "A", ""), Rec(2, 1, "B", "b.htm"), Rec(3, 2, "C", "c.htm"),
      Rec(4, 1, "D", "$$unsavedpage1"), Rec(5, 4, "E", "sub/e.htm")>>

NavSamples == {
    ExampleNav,
    \* an id registered twice, out of order
    <<Rec(7, 2, "X", "b.htm"), Rec(2, -1, "R", ""), Rec(7, 2, "Y", "c.htm")>>,
    \* a cycle of three and a node below it
    <<Rec(1, 3, "A", "b.htm"), Rec(2, 1, "B", "c.htm"), Rec(3, 2, "C", ""),
      Rec(4, 3, "D", "d.htm")>>
    }

TreeNext ==
    \/ NoLeftFile
    \/ pc = "start" /\ \E matches \in NavSamples : ReadLeft(matches)
    \/ /\ pc = "start"
       /\ \E n \in 0..MaxMatches :
             \E parents \in [1..n -> {-1} \cup (1..n)],
                urls \in [1..n -> NodeUrls] :
                ReadLeft(Generated(n, parents, urls))
    \/ NextItem
    \/ PathStep
    \/ PathReturn
    \/ BreadcrumbsReturn

\* build_breadcrumbs does not read os.sep
TreeInit == Init /\ os_sep = "/"

SpecTree == TreeInit /\ [][TreeNext]_vars

------------------------------------------------------------------------
(* The script from start to end.                                          *)

SamePath(f, g) == f.dir = g.dir /\ f.name = g.name

\* the next file os.walk produces
Walk(f) ==
    \/ WalkOther(f)
    \/ WalkSkip(f)
    \/ WalkIndex(f)
    \/ WalkError(f)

Next ==
    \/ NoLeftFile
    \/ pc = "start" /\ ReadLeft(ExampleNav)
    \/ NextItem
    \/ PathStep
    \/ PathReturn
    \/ BreadcrumbsReturn
    \/ /\ pc = "scan"
       /\ Cardinality(walked) < MaxFiles
       /\ \E f \in SiteFiles :
             /\ OnPlatform(os_sep, f)
             /\ \A g \in walked : ~SamePath(f, g)
             /\ Walk(f)
    \/ SortAndDump
    \/ Report

Spec == Init /\ [][Next]_vars

-----------------------------------------------------------------------------
(* The summary on its own (lines 155-170): the script has written          *)
(* search.json and read its size back.  The summary reads file_size, the   *)
(* counters and index_data.  file_size is drawn around the limits of 1 MB  *)
(* and 5 MB, sizes the pages of SiteFiles are too small to produce; the    *)
(* records behind a file of that size are not enumerated.                  *)

ReportSpread == 20

ReportSizes ==
    {2}
    \cup ((1024 * 1024 - ReportSpread)..(1024 * 1024 + ReportSpread))
    \cup ((5 * 1024 * 1024 - ReportSpread)..(5 * 1024 * 1024 + ReportSpread))

ReportInit ==
    /\ pc = "written"
    /\ console = <<<<"building", "">>, <<"step", "1">>,
                   <<"no_left_file", LEFT_FILE>>, <<"step", "2">>>>
    /\ nodes_order = <<>>
    /\ nodes = EmptyDict
    /\ item = 0
    /\ node_id = 0
    /\ path = <<>>
    /\ current = 0
    /\ visited = {}
    /\ url_to_breadcrumb = EmptyDict
    /\ walked = {}
    /\ index_data = <<>>
    /\ skipped = 0
    /\ errors = 0
    /\ file_size \in ReportSizes
    /\ size_str = ""
    /\ os_sep \in {"/", "\\"}

ReportNext == Report

SpecReport == ReportInit /\ [][ReportNext]_vars

-----
(* The breadcrumbs against the node table.                                 *)

\* the node k parent links above id, or the first id met that is no node
RECURSIVE Up(_, _, _)
Up(table, id, k) ==
    IF k = 0 \/ id \notin DOMAIN table THEN id
    ELSE Up(table, table[id].parent_id, k - 1)

Acyclic(table) ==
    \A id \in DOMAIN table :
        \A k \in 1..Cardinality(DOMAIN table) : Up(table, id, k) /= id

\* the ids from the outermost ancestor present down to id, in an acyclic table
RECURSIVE ChainIds(_, _)
ChainIds(table, id) ==
    IF id \notin DOMAIN table THEN <<>>
    ELSE Append(ChainIds(table, table[id].parent_id), id)

ChainNames(table, id) ==
    [i \in 1..Len(ChainIds(table, id)) |-> table[ChainIds(table, id)[i]].name]

Arrows(names) == Join(" → ", names)

\* the node met last by nodes.items() among those with the url
LastWithUrl(order, table, url) ==
    order[CHOOSE i \in 1..Len(order) :
            /\ table[order[i]].url = url
            /\ \A j \in (i + 1)..Len(order) : table[order[j]].url /= url]

\* build_breadcrumbs is about to return
TreeDone == pc = "items" /\ item > Len(nodes_order)

IsPageUrl(url) == url /= "" /\ (Len(url) < 2 \/ SubSeq(url, 1, 2) /= "$$")

\* C1 as stated: in an acyclic table every node with a page url has its own
\* chain of names, root first and joined with the arrow, as the breadcrumb of
\* its url.
C1_EveryNodeOwnChain ==
    (TreeDone /\ Acyclic(nodes)) =>
        \A id \in DOMAIN nodes :
            IsPageUrl(nodes[id].url) =>
                /\ nodes[id].url \in DOMAIN url_to_breadcrumb
                /\ url_to_breadcrumb[nodes[id].url] =
                       Arrows(ChainNames(nodes, id))

\* C1 amended: in an acyclic table every page url is mapped to the chain of
\* names, root first and joined with the arrow, of the last node in table
\* order that has the url; the example records give "A → B → C" for c.htm
\* and "A → B" for b.htm.
C1_LastNodeChain ==
    (TreeDone /\ Acyclic(nodes)) =>
        /\ \A id \in DOMAIN nodes :
              IsPageUrl(nodes[id].url) =>
                  /\ nodes[id].url \in DOMAIN url_to_breadcrumb
                  /\ url_to_breadcrumb[nodes[id].url] =
                         Arrows(ChainNames(nodes,
                             LastWithUrl(nodes_order, nodes, nodes[id].url)))
        /\ nodes = BuildNodes(ExampleNav, <<>>, EmptyDict).table =>
              /\ url_to_breadcrumb["c.htm"] = "A → B → C"
              /\ url_to_breadcrumb["b.htm"] = "A → B"

C1_Witness ==
    /\ TreeDone
    /\ Acyclic(nodes)
    /\ \E id \in DOMAIN nodes :
          /\ IsPageUrl(nodes[id].url)
          /\ Len(ChainIds(nodes, id)) = 3
          /\ \E other \in DOMAIN nodes :
                /\ other /= id
                /\ nodes[other].url = nodes[id].url
                /\ ChainNames(nodes, other) /= ChainNames(nodes, id)

\* C7: while build_breadcrumbs runs, every key of the mapping is the url of
\* some node, is non-empty and does not start with "$$"; when it returns from
\* an acyclic table, the name of a "$$" node is in the breadcrumb of every
\* page below it.
C7_KeysArePageUrls ==
    pc \in {"items", "get_path"} =>
        /\ \A url \in DOMAIN url_to_breadcrumb :
              /\ IsPageUrl(url)
              /\ \E id \in DOMAIN nodes : nodes[id].url = url
        /\ (TreeDone /\ Acyclic(nodes)) =>
              \A id \in DOMAIN nodes :
                  LET below == LastWithUrl(nodes_order, nodes, nodes[id].url)
                  IN  IsPageUrl(nodes[id].url) =>
                          \A k \in 1..Len(ChainIds(nodes, below)) :
                              LET above == ChainIds(nodes, below)[k]
                              IN  StartsWith(nodes[above].url, "$$") =>
                                      Contains(url_to_breadcrumb[nodes[id].url],
                                               nodes[above].name)

C7_Witness ==
    /\ TreeDone
    /\ Acyclic(nodes)
    /\ \E id \in DOMAIN nodes, above \in DOMAIN nodes :
          /\ nodes[above].url = "$$unsavedpage1"
          /\ nodes[id].parent_id = above
          /\ nodes[id].url \in DOMAIN url_to_breadcrumb
          /\ "$$unsavedpage1" \notin DOMAIN url_to_breadcrumb

\* the ids get_path has passed, in the order of the walk
Passed(n) == [i \in 1..n |-> Up(nodes, node_id, i - 1)]

C8_LoopState ==
    /\ pc = "get_path" =>
          /\ Len(path) <= Cardinality(DOMAIN nodes)
          /\ Len(path) = Cardinality(visited)
          /\ visited = {Passed(Len(path))[i] : i \in 1..Len(path)}
          /\ \A i \in 1..Len(path) : path[i] = nodes[Passed(Len(path))[i]].name
          /\ current = Up(nodes, node_id, Len(path))
    /\ (pc = "items" /\ visited /= {}) =>
          /\ current \notin DOMAIN nodes \/ current \in visited
          /\ Len(path) = Cardinality(visited)
          /\ Len(path) <= Cardinality(DOMAIN nodes)
          /\ \A i \in 1..Len(path) :
                path[Len(path) + 1 - i] = nodes[Passed(Len(path))[i]].name

\* C8: in every table, get_path's loop has taken at most as many steps as
\* there are nodes, each step adds one name, the names collected are those of
\* pairwise distinct nodes along the parent links, and the loop has ended at
\* the first id that is no node or was already visited.
C8_WalkTerminates ==
    /\ []C8_LoopState
    /\ [][(pc = "get_path" /\ pc' = "get_path") =>
             Len(path') = Len(path) + 1]_vars

C8_Witness ==
    /\ pc = "items"
    /\ current \in visited
    /\ Cardinality(visited) >= 3
    /\ Cardinality(visited) < Cardinality(DOMAIN nodes)

-----------------------------------------------------------------------------
(* The walk, the sort and the output.                                      *)

\* the files of the walk so far that line 100 lets through
Enumerated == {f \in walked : IsHtml(f.name)}

HasSkipName(name) ==
    \/ Contains(name, "___")
    \/ Contains(name, "index")
    \/ Contains(name, "search")
    \/ Contains(name, "$$unsavedpage")

\* the files of the walk so far that are read
Eligible == {f \in Enumerated : ~HasSkipName(f.name)}

Url(f) == RelPath(os_sep, f)

Counted == skipped + errors + Len(index_data)

\* C2: once search.json is written, index_data is in ascending order of
\* title: no record's title is greater than the next one's.
C2_SortedByTitle ==
    pc \in {"written", "done"} =>
        \A i \in 1..(Len(index_data) - 1) :
            ~StrLess(index_data[i + 1].title, index_data[i].title)

C2_Witness ==
    /\ pc = "written"
    /\ Len(index_data) >= 3
    /\ \E i \in 1..(Len(index_data) - 1) :
          index_data[i].title = index_data[i + 1].title
    /\ \E i \in 1..(Len(index_data) - 1) :
          StrLess(index_data[i].title, index_data[i + 1].title)

C3_State ==
    pc \in {"scan", "written", "done"} =>
        /\ errors = Cardinality({f \in Eligible : f.raises /= ""})
        /\ Len(index_data) = Cardinality({f \in Eligible : f.raises = ""})
        /\ \A f \in Eligible :
              IF f.raises = ""
              THEN \E i \in 1..Len(index_data) :
                      /\ index_data[i].url = Url(f)
                      /\ index_data[i].title = Extracted[f].title
              ELSE \A i \in 1..Len(index_data) : index_data[i].url /= Url(f)

\* C3: errors is the number of files read so far whose processing raised, no
\* record carries the url of such a file, every other file read so far has
\* its record, and the step that counts an error appends nothing and leaves
\* the walk running.
C3_ErrorsDoNotAbort ==
    /\ []C3_State
    /\ [][errors' /= errors =>
             /\ errors' = errors + 1
             /\ index_data' = index_data
             /\ pc' = "scan"]_vars

C3_Witness ==
    /\ pc = "done"
    /\ errors = 1
    /\ Len(index_data) = 2

C4_State == Counted <= Cardinality(Enumerated)

\* C4: during and after the walk skipped + errors + len(index_data) is at
\* most the number of .htm/.html files enumerated, no step lowers any of the
\* three, and a step raises their sum by at most one and only when it
\* enumerates a file.
C4_CountersBounded ==
    /\ []C4_State
    /\ [][/\ skipped' >= skipped
          /\ errors' >= errors
          /\ Len(index_data') >= Len(index_data)
          /\ Counted' - Counted \in {0, 1}
          /\ Counted' /= Counted =>
                Cardinality(Enumerated') = Cardinality(Enumerated) + 1]_vars

C4_Witness ==
    /\ pc = "done"
    /\ skipped = 1
    /\ errors = 1
    /\ Len(index_data) = 1

C5_State ==
    /\ \A f \in walked :
          HasSkipName(f.name) =>
              \A i \in 1..Len(index_data) : index_data[i].url /= Url(f)
    /\ \A i \in 1..Len(index_data) : index_data[i].url /= "___left.htm"
    /\ skipped = Cardinality({f \in Enumerated : HasSkipName(f.name)})

\* C5: no record carries the url of a file whose name contains "___",
\* "index", "search" or "$$unsavedpage"; the step that enumerates such an
\* .htm/.html file raises skipped by one and changes nothing else, so the
\* file is not read (a read that fails would count an error and print).
C5_SkipNamesNeverIndexed ==
    /\ []C5_State
    /\ [][\A f \in walked' \ walked :
             HasSkipName(f.name) =>
                 /\ index_data' = index_data
                 /\ errors' = errors
                 /\ console' = console
                 /\ skipped' = IF IsHtml(f.name) THEN skipped + 1
                               ELSE skipped]_vars

C5_Witness ==
    /\ pc = "done"
    /\ skipped = 2
    /\ Len(index_data) = 1
    /\ \E f \in walked : f.name = "___left.htm"
    /\ \E f \in walked : f.name = "index.html" /\ f.raises /= ""

\* the whitespace-collapsed text of each file of the site
PageTexts == [f \in SiteFiles |-> PageText(f.doc)]

Capped(text) ==
    IF Len(text) <= 3000 THEN text ELSE SubSeq(text, 1, 3000)

\* C6: the content of every record has at most MAX_CONTENT_LENGTH (3000)
\* characters; it is the collapsed text of its file when that has at most
\* 3000 characters, and its first 3000 characters otherwise.
C6_ContentCapped ==
    \A i \in 1..Len(index_data) :
        /\ Len(index_data[i].content) <= 3000
        /\ \E f \in Eligible :
              /\ index_data[i].url = Url(f)
              /\ index_data[i].content = Capped(PageTexts[f])

C6_Witness ==
    /\ pc = "done"
    /\ \E i \in 1..Len(index_data) :
          /\ Len(index_data[i].content) = 3000
          /\ \E f \in Eligible :
                /\ index_data[i].url = Url(f)
                /\ Len(PageTexts[f]) > 3000
                /\ index_data[i].content = SubSeq(PageTexts[f], 1, 3000)
    /\ \E i \in 1..Len(index_data) :
          /\ Len(index_data[i].content) = 3000
          /\ \E f \in Eligible :
                /\ index_data[i].url = Url(f)
                /\ index_data[i].content = PageTexts[f]
    /\ \E i \in 1..Len(index_data) : index_data[i].content = "Alpha one two"

\* C9: no two records of index_data have the same url.
C9_UrlsUnique ==
    \A i \in 1..Len(index_data), j \in 1..Len(index_data) :
        i /= j => index_data[i].url /= index_data[j].url

\* C10: when the script is done, it has printed an advisory about
\* MAX_CONTENT_LENGTH exactly when search.json is larger than 5 MB.
C10_AdvisoryAboveFiveMB ==
    pc = "done" =>
        (file_size > 5 * 1024 * 1024 <=>
            \E i \in 1..Len(console) : console[i][1] = "advisory")

====
